---------------------------- MODULE Spec2Model ----------------------------
(***************************************************************************)
(* FinanceApp core API (backend/core): Income, Expense and SavingsGoal     *)
(* rows owned by users, the CRUD viewsets, the add_funds action, the       *)
(* aggregation endpoints and the dashboard.                                *)
(*                                                                         *)
(* Money is held in cents (DecimalField, 2 places).  Python floats are     *)
(* IEEE-754 binary64 values, modelled bit-exactly with a 53-bit mantissa   *)
(* kept as a little-endian sequence of base-2^15 limbs.  add_funds and the *)
(* dashboard are one step per database query, so that other requests can  *)
(* run between their queries; every other handler is a single step.        *)
(***************************************************************************)
EXTENDS Integers, Sequences, FiniteSets, TLC

(***************************************************************************)
(* Bounds of the model.                                                    *)
(***************************************************************************)
\* Income rows ever inserted
MaxIncome == 1
\* Expense rows ever inserted
MaxExpense == 2
\* SavingsGoal rows ever inserted
MaxGoal == 1
\* midnights that pass
MaxNights == 5
\* no add_funds starts once a goal holds this many cents
MaxSaved == 20

(***************************************************************************)
(* Program constants.                                                      *)
(***************************************************************************)
\* DecimalField(decimal_places=2)
DecimalPlaces == 2
\* DecimalField(max_digits=12)
MaxDigits == 12
\* the precision of the decimal context, in digits (Python's default)
DecimalPrec == 28
\* range(5, -1, -1)
OldestMonthOffset == 5

Users == {"alice", "bob"}
Procs == {"w1", "w2"}       \* request workers that can run add_funds at once

CATEGORY_CHOICES ==
    << <<"food", "Food & Dining">>, <<"rent", "Rent & Housing">>,
       <<"utilities", "Utilities">>, <<"travel", "Travel & Transport">>,
       <<"entertainment", "Entertainment">>, <<"health", "Health & Fitness">>,
       <<"shopping", "Shopping">>, <<"education", "Education">>,
       <<"savings", "Savings Transfer">>, <<"other", "Other">> >>

Categories == {CATEGORY_CHOICES[i][1] : i \in DOMAIN CATEGORY_CHOICES}

\* dict(Expense.CATEGORY_CHOICES).get(category, category)
CategoryLabel(c) ==
    IF c \in Categories
    THEN CATEGORY_CHOICES[CHOOSE i \in DOMAIN CATEGORY_CHOICES :
                              CATEGORY_CHOICES[i][1] = c][2]
    ELSE c

None == "None"

(***************************************************************************)
(* datetime.date: calendar dates and the arithmetic the handlers use.      *)
(***************************************************************************)
Date(y, m, d) == [year |-> y, month |-> m, day |-> d]

IsLeap(y) == y % 4 = 0 /\ (y % 100 # 0 \/ y % 400 = 0)

DaysInMonth(y, m) ==
    IF m = 2 THEN (IF IsLeap(y) THEN 29 ELSE 28)
    ELSE IF m \in {4, 6, 9, 11} THEN 30 ELSE 31

RECURSIVE DaysBeforeMonth(_, _)
DaysBeforeMonth(y, m) ==
    IF m = 1 THEN 0 ELSE DaysBeforeMonth(y, m - 1) + DaysInMonth(y, m - 1)

\* date.toordinal(): days since 0001-01-01, that day being 1
Ordinal(dt) ==
    LET y == dt.year - 1
    IN  y * 365 + y \div 4 - y \div 100 + y \div 400
        + DaysBeforeMonth(dt.year, dt.month) + dt.day

\* (a - b).days
DaysBetween(a, b) == Ordinal(a) - Ordinal(b)

\* dt - timedelta(days=1)
PrevDay(dt) ==
    IF dt.day > 1 THEN Date(dt.year, dt.month, dt.day - 1)
    ELSE IF dt.month > 1
    THEN Date(dt.year, dt.month - 1, DaysInMonth(dt.year, dt.month - 1))
    ELSE Date(dt.year - 1, 12, 31)

\* the date after dt
NextDay(dt) ==
    IF dt.day < DaysInMonth(dt.year, dt.month)
    THEN Date(dt.year, dt.month, dt.day + 1)
    ELSE IF dt.month < 12 THEN Date(dt.year, dt.month + 1, 1)
    ELSE Date(dt.year + 1, 1, 1)

\* dt.replace(day=1)
ReplaceDay1(dt) == Date(dt.year, dt.month, 1)

DateLE(a, b) == Ordinal(a) <= Ordinal(b)

MonthAbbr ==
    <<"Jan", "Feb", "Mar", "Apr", "May", "Jun",
      "Jul", "Aug", "Sep", "Oct", "Nov", "Dec">>

\* dt.strftime('%b %Y'), kept as its two parts
StrfMonthYear(dt) == [mon |-> MonthAbbr[dt.month], year |-> dt.year]

MonthName ==
    <<"January", "February", "March", "April", "May", "June",
      "July", "August", "September", "October", "November", "December">>

\* strftime('%B %Y')
StrfFullMonthYear(dt) == [mon |-> MonthName[dt.month], year |-> dt.year]

(***************************************************************************)
(* Natural numbers of any size: little-endian limbs in base 2^15, no       *)
(* leading zero limb, <<>> for zero.  Limb products stay below 2^31.       *)
(***************************************************************************)
Base == 2^15

RECURSIVE BigOfNat(_)
BigOfNat(n) == IF n = 0 THEN <<>> ELSE <<n % Base>> \o BigOfNat(n \div Base)

RECURSIVE BigMulCarry(_, _, _)
BigMulCarry(a, k, carry) ==
    IF a = <<>> THEN BigOfNat(carry)
    ELSE LET t == Head(a) * k + carry
         IN  <<t % Base>> \o BigMulCarry(Tail(a), k, t \div Base)

BigMulSmall(a, k) == IF k = 0 THEN <<>> ELSE BigMulCarry(a, k, 0)

\* quotient and remainder of a by a small k (0 < k <= Base)
RECURSIVE BigDivMod(_, _)
BigDivMod(a, k) ==
    IF a = <<>> THEN [q |-> <<>>, r |-> 0]
    ELSE LET hi == BigDivMod(Tail(a), k)
             t  == hi.r * Base + Head(a)
         IN  [q |-> IF hi.q = <<>> /\ t \div k = 0 THEN <<>>
                    ELSE <<t \div k>> \o hi.q,
              r |-> t % k]

RECURSIVE BigAddCarry(_, _, _)
BigAddCarry(a, b, carry) ==
    IF a = <<>> /\ b = <<>> THEN BigOfNat(carry)
    ELSE LET x == IF a = <<>> THEN 0 ELSE Head(a)
             y == IF b = <<>> THEN 0 ELSE Head(b)
             t == x + y + carry
         IN  <<t % Base>> \o BigAddCarry(IF a = <<>> THEN a ELSE Tail(a),
                                         IF b = <<>> THEN b ELSE Tail(b),
                                         t \div Base)

BigAdd(a, b) == BigAddCarry(a, b, 0)

BigShiftLimb(a) == IF a = <<>> THEN <<>> ELSE <<0>> \o a

RECURSIVE BigMul(_, _)
BigMul(a, b) ==
    IF b = <<>> THEN <<>>
    ELSE BigAdd(BigMulSmall(a, Head(b)), BigShiftLimb(BigMul(a, Tail(b))))

RECURSIVE BigCmpFrom(_, _, _)
BigCmpFrom(a, b, i) ==
    IF i = 0 THEN 0
    ELSE IF a[i] > b[i] THEN 1
    ELSE IF a[i] < b[i] THEN -1
    ELSE BigCmpFrom(a, b, i - 1)

\* -1, 0 or 1
BigCmp(a, b) ==
    IF Len(a) > Len(b) THEN 1
    ELSE IF Len(a) < Len(b) THEN -1
    ELSE BigCmpFrom(a, b, Len(a))

\* a * 2^s
RECURSIVE BigShl(_, _)
BigShl(a, s) ==
    IF s = 0 THEN a
    ELSE IF s >= 15 THEN BigShl(BigShiftLimb(a), s - 15)
    ELSE BigMulSmall(a, 2^s)

\* floor(a / 2^s)
RECURSIVE BigShr(_, _)
BigShr(a, s) ==
    IF s = 0 \/ a = <<>> THEN a
    ELSE IF s >= 15 THEN BigShr(Tail(a), s - 15)
    ELSE BigDivMod(a, 2^s).q

RECURSIVE BitLen(_)
BitLen(n) == IF n = 0 THEN 0 ELSE 1 + BitLen(n \div 2)

BigBits(a) == IF a = <<>> THEN 0 ELSE (Len(a) - 1) * 15 + BitLen(a[Len(a)])

BigIsOdd(a) == a # <<>> /\ Head(a) % 2 = 1

(***************************************************************************)
(* Python float (binary64): (-1)^neg * man * 2^exp with man of exactly 53  *)
(* bits, or man = <<>> for zero.  Results are rounded to nearest, ties to  *)
(* even.  The values of the model stay far from the subnormal and overflow *)
(* ranges.                                                                 *)
(***************************************************************************)
F64Zero == [neg |-> FALSE, man |-> <<>>, exp |-> 0]

\* n * 2^e rounded to 53 bits
F64Round(neg, n, e) ==
    LET bits == BigBits(n) IN
    IF bits = 0 THEN F64Zero
    ELSE IF bits <= 53
    THEN [neg |-> neg, man |-> BigShl(n, 53 - bits), exp |-> e - (53 - bits)]
    ELSE LET s    == bits - 53
             q    == BigShr(n, s)
             half == BigShl(BigAdd(BigMulSmall(q, 2), <<1>>), s - 1)
             c    == BigCmp(n, half)
             up   == c > 0 \/ (c = 0 /\ BigIsOdd(q))
             m    == IF up THEN BigAdd(q, <<1>>) ELSE q
         IN  IF BigBits(m) > 53
             THEN [neg |-> neg, man |-> BigShr(m, 1), exp |-> e + s + 1]
             ELSE [neg |-> neg, man |-> m, exp |-> e + s]

\* the float nearest to p / q (q > 0): the quotient to 70 fraction bits and a
\* sticky bit for the remainder, then rounded
F64OfRatio(p, q) ==
    LET a  == IF p < 0 THEN -p ELSE p
        dm == BigDivMod(BigShl(BigOfNat(a), 70), q)
        n  == BigAdd(BigMulSmall(dm.q, 2), IF dm.r = 0 THEN <<>> ELSE <<1>>)
    IN  F64Round(p < 0, n, -71)

\* a * b
F64Mul(a, b) == F64Round(a.neg # b.neg, BigMul(a.man, b.man), a.exp + b.exp)

F64CmpAbs(a, b) ==
    IF a.man = <<>> \/ b.man = <<>>
    THEN (IF a.man = b.man THEN 0 ELSE IF a.man = <<>> THEN -1 ELSE 1)
    ELSE IF a.exp >= b.exp
    THEN BigCmp(BigShl(a.man, a.exp - b.exp), b.man)
    ELSE BigCmp(a.man, BigShl(b.man, b.exp - a.exp))

\* -1, 0 or 1
F64Cmp(a, b) ==
    LET an == a.neg /\ a.man # <<>>
        bn == b.neg /\ b.man # <<>>
    IN  IF an /\ ~bn THEN -1
        ELSE IF ~an /\ bn THEN 1
        ELSE IF an THEN -F64CmpAbs(a, b)
        ELSE F64CmpAbs(a, b)

\* a >= b
F64Ge(a, b) == F64Cmp(a, b) >= 0

\* min(a, b) of Python: b when b < a, else a
F64Min(a, b) == IF F64Cmp(b, a) < 0 THEN b ELSE a

F64One == F64OfRatio(1, 1)

\* float(Decimal) of an amount of c cents
FloatOfCents(c) == F64OfRatio(c, 10^DecimalPlaces)


(***************************************************************************)
(* decimal.Decimal.  A finite value is (-1)^neg * coef / 10^places.        *)
(* Text is a sequence of one-character strings.                            *)
(***************************************************************************)
DigitChars == <<"0", "1", "2", "3", "4", "5", "6", "7", "8", "9">>

Digits == {DigitChars[i] : i \in DOMAIN DigitChars}

DigitVal(c) == (CHOOSE i \in DOMAIN DigitChars : DigitChars[i] = c) - 1

DecFinite(neg, coef, places) ==
    [kind |-> "finite", neg |-> neg, coef |-> coef, places |-> places]

DecInfinity(neg) == [kind |-> "inf", neg |-> neg, coef |-> 0, places |-> 0]

DecNaN == [kind |-> "nan", neg |-> FALSE, coef |-> 0, places |-> 0]

\* the constructor raises decimal.InvalidOperation
DecInvalid == [kind |-> "invalid", neg |-> FALSE, coef |-> 0, places |-> 0]

\* a stored DecimalField value of c cents
DecOfCents(c) == DecFinite(c < 0, IF c < 0 THEN -c ELSE c, DecimalPlaces)

RECURSIVE DigitsValue(_, _)
DigitsValue(s, acc) ==
    IF s = <<>> THEN acc ELSE DigitsValue(Tail(s), acc * 10 + DigitVal(Head(s)))

\* Decimal(text) for the forms [sign] digits [. digits], [sign] . digits,
\* [sign] Inf | Infinity, [sign] NaN; any other text is invalid
DecimalOfString(s) ==
    LET signed == s # <<>> /\ Head(s) \in {"+", "-"}
        neg    == s # <<>> /\ Head(s) = "-"
        body   == IF signed THEN Tail(s) ELSE s
        dots   == {i \in DOMAIN body : body[i] = "."}
        dot    == IF dots = {} THEN Len(body) + 1 ELSE CHOOSE i \in dots : TRUE
        int    == SubSeq(body, 1, dot - 1)
        frac   == SubSeq(body, dot + 1, Len(body))
        all    == int \o frac
    IN  IF body = <<"N", "a", "N">> THEN DecNaN
        ELSE IF body \in {<<"I", "n", "f">>,
                          <<"I", "n", "f", "i", "n", "i", "t", "y">>}
        THEN DecInfinity(neg)
        ELSE IF Cardinality(dots) <= 1 /\ all # <<>>
                /\ \A i \in DOMAIN all : all[i] \in Digits
        THEN DecFinite(neg, DigitsValue(all, 0), Len(frac))
        ELSE DecInvalid

\* an ordering comparison of a NaN raises decimal.InvalidOperation
DecCompareRaises(d) == d.kind = "nan"

\* d <= 0, for d that compares
DecLeZero(d) == IF d.kind = "inf" THEN d.neg ELSE d.coef = 0 \/ d.neg

\* a + b for a, b >= 0
DecAdd(a, b) ==
    IF a.kind # "finite" THEN a
    ELSE IF b.kind # "finite" THEN b
    ELSE LET p == IF a.places >= b.places THEN a.places ELSE b.places
         IN  DecFinite(FALSE, a.coef * 10^(p - a.places) + b.coef * 10^(p - b.places), p)

RECURSIVE NumDigits(_)
NumDigits(n) == IF n < 10 THEN 1 ELSE 1 + NumDigits(n \div 10)

\* DecimalField's value as written to its column: quantized to DecimalPlaces
\* places, half to even, within MaxDigits digits (a value >= 0, in cents);
\* a value that is not finite or has too many digits raises
DecimalFieldDbValue(d) ==
    IF d.kind # "finite" THEN [raised |-> TRUE, cents |-> 0]
    ELSE LET cents ==
                 IF d.places <= DecimalPlaces
                 THEN d.coef * 10^(DecimalPlaces - d.places)
                 ELSE LET div == 10^(d.places - DecimalPlaces)
                          q   == d.coef \div div
                          r   == d.coef % div
                      IN  IF 2 * r > div \/ (2 * r = div /\ q % 2 = 1)
                          THEN q + 1 ELSE q
         IN  IF NumDigits(cents) > MaxDigits THEN [raised |-> TRUE, cents |-> 0]
             ELSE [raised |-> FALSE, cents |-> cents]

\* float(Decimal)
FloatOfDecimal(d) == F64OfRatio(IF d.neg THEN -d.coef ELSE d.coef, 10^d.places)

(***************************************************************************)
(* Decimal division.  A quotient is [neg, coef, exp]: (-1)^neg * coef *    *)
(* 10^exp, coef a natural number kept in limbs (<<>> for zero): the exact  *)
(* quotient when it has at most DecimalPrec digits, else the quotient      *)
(* rounded half to even to DecimalPrec digits.  The amounts of the model   *)
(* stay below 2000.000, so that every intermediate product fits a machine  *)
(* word.                                                                   *)
(***************************************************************************)
\* num / den scaled by powers of ten to den <= num < 10 * den; k counts them
RECURSIVE Normalize(_, _, _)
Normalize(num, den, k) ==
    IF num < den THEN Normalize(num * 10, den, k - 1)
    ELSE IF num >= 10 * den THEN Normalize(num, den * 10, k + 1)
    ELSE [num |-> num, den |-> den, k |-> k]

\* long division, three digits a step: up to n steps from remainder r, after
\* the digits acc; it ends when the division comes out even, left steps early
RECURSIVE DivChunks(_, _, _, _)
DivChunks(r, den, n, acc) ==
    IF n = 0 \/ r = 0 THEN [coef |-> acc, rem |-> r, left |-> n]
    ELSE LET t == r * 1000
         IN  DivChunks(t % den, den, n - 1,
                       BigAdd(BigMulSmall(acc, 1000), BigOfNat(t \div den)))

\* a / b for finite a and b, b # 0
DecDivide(a, b) ==
    IF a.coef = 0 THEN [neg |-> FALSE, coef |-> <<>>, exp |-> 0]
    ELSE LET p    == IF a.places >= b.places THEN a.places ELSE b.places
             norm == Normalize(a.coef * 10^(p - a.places),
                               b.coef * 10^(p - b.places), 0)
             d    == DivChunks(norm.num % norm.den, norm.den,
                               (DecimalPrec - 1) \div 3,
                               BigOfNat(norm.num \div norm.den))
             up   == \/ 2 * d.rem > norm.den
                     \/ 2 * d.rem = norm.den /\ BigIsOdd(d.coef)
         IN  [neg  |-> a.neg # b.neg,
              coef |-> IF up THEN BigAdd(d.coef, <<1>>) ELSE d.coef,
              exp  |-> norm.k - (DecimalPrec - 1) + 3 * d.left]

\* q * 100: the two digits added to the coefficient are zeros, so rounding it
\* back to DecimalPrec digits keeps the value
DecTimes100(q) == [q EXCEPT !.exp = @ + 2]

\* floor(a / 10^p), and whether anything was cut off
RECURSIVE DivPow10(_, _, _)
DivPow10(a, p, sticky) ==
    IF p = 0 THEN [q |-> a, sticky |-> sticky]
    ELSE LET step == IF p >= 4 THEN 4 ELSE p
             dm   == BigDivMod(a, 10^step)
         IN  DivPow10(dm.q, p - step, sticky \/ dm.r # 0)

RECURSIVE BigMulPow10(_, _)
BigMulPow10(a, p) == IF p = 0 THEN a ELSE BigMulPow10(BigMulSmall(a, 10), p - 1)

\* float(q) of a quotient: the nearest float
FloatOfQuotient(q) ==
    IF q.coef = <<>> THEN F64Zero
    ELSE IF q.exp >= 0 THEN F64Round(q.neg, BigMulPow10(q.coef, q.exp), 0)
    ELSE LET d == DivPow10(BigShl(q.coef, 80), -q.exp, FALSE)
             n == BigAdd(BigMulSmall(d.q, 2), IF d.sticky THEN <<1>> ELSE <<>>)
         IN  F64Round(q.neg, n, -81)

(***************************************************************************)
(* request.data values: JSON null, an integer number, or a string.         *)
(***************************************************************************)
JNull == [t |-> "null", n |-> 0, s |-> <<>>]
JNum(n) == [t |-> "num", n |-> n, s |-> <<>>]
JStr(s) == [t |-> "str", n |-> 0, s |-> s]

\* bool(value)
Truthy(v) ==
    IF v.t = "null" THEN FALSE
    ELSE IF v.t = "num" THEN v.n # 0
    ELSE v.s # <<>>

RECURSIVE NatDigits(_)
NatDigits(n) ==
    IF n < 10 THEN <<DigitChars[n + 1]>>
    ELSE NatDigits(n \div 10) \o <<DigitChars[(n % 10) + 1]>>

\* str(value)
PyStr(v) ==
    IF v.t = "str" THEN v.s
    ELSE IF v.t = "null" THEN <<"N", "o", "n", "e">>
    ELSE IF v.n < 0 THEN <<"-">> \o NatDigits(-v.n)
    ELSE NatDigits(v.n)

(***************************************************************************)
(* State.                                                                  *)
(***************************************************************************)
VARIABLES
    today,      \* date.today() of the server
    nights,     \* midnights passed so far
    incomes,    \* Income rows: [id, user, amount, date]
    expenses,   \* Expense rows: [id, user, category, amount, date]
    goals,      \* SavingsGoal rows:
                \*   [id, user, target_amount, current_amount, deadline, created_at]
    nextId,     \* next primary key of each table
    funds,      \* per worker: the add_funds request it is handling
    dash,       \* the dashboard request being handled
    response    \* the response the last step sent

vars == <<today, nights, incomes, expenses, goals, nextId, funds, dash, response>>

db == <<incomes, expenses, goals, nextId>>

Respond(op, user, status, body) ==
    [op |-> op, user |-> user, status |-> status, body |-> body]

\* what stands for an absent row, amount or body
NoGoal ==
    [id |-> 0, user |-> None, target_amount |-> 0, current_amount |-> 0,
     deadline |-> Date(1, 1, 1), created_at |-> Date(1, 1, 1)]

NoBody == [raised |-> FALSE]

\* the step sent no response
NoResponse == Respond("none", None, 0, NoBody)

FundsIdle ==
    [pc |-> "idle", user |-> None, pk |-> 0, data |-> JNull, goal |-> NoGoal,
     amount |-> DecInvalid, status |-> 0, body |-> NoBody]

DashIdle ==
    [pc |-> "idle", user |-> None, today |-> Date(1, 1, 1),
     total_income |-> 0, total_expenses |-> 0, balance |-> 0,
     month_income |-> 0, month_expenses |-> 0,
     expenses_by_category |-> <<>>, monthly_data |-> <<>>,
     i |-> 0, m_income |-> 0]

\* reference dates the server can start on
StartDates == {Date(2024, 1, 15), Date(2024, 2, 29), Date(2024, 3, 31)}

Init ==
    /\ today \in StartDates
    /\ nights = 0
    /\ incomes = {}
    /\ expenses = {}
    /\ goals = {}
    /\ nextId = [income |-> 1, expense |-> 1, goal |-> 1]
    /\ funds = [p \in Procs |-> FundsIdle]
    /\ dash = DashIdle
    /\ response = NoResponse

\* date.today() moves on at midnight
Midnight ==
    /\ nights < MaxNights
    /\ nights' = nights + 1
    /\ today' = NextDay(today)
    /\ response' = NoResponse
    /\ UNCHANGED <<incomes, expenses, goals, nextId, funds, dash>>

(***************************************************************************)
(* SavingsGoal.                                                            *)
(***************************************************************************)
\* the int 100 as a float
F64Hundred == F64OfRatio(100, 1)

\* progress_percentage of an instance with target_amount target (cents) and
\* current_amount current (a finite Decimal): the int 0, or the lesser of the
\* float and the int 100
ProgressPercentage(target, current) ==
    IF target <= 0 THEN [int |-> TRUE, value |-> F64Zero]
    ELSE LET x == FloatOfQuotient(DecTimes100(DecDivide(current, DecOfCents(target))))
         IN  IF F64Cmp(F64Hundred, x) < 0
             THEN [int |-> TRUE, value |-> F64Hundred]
             ELSE [int |-> FALSE, value |-> x]

(***************************************************************************)
(* SavingsGoalSerializer.                                                  *)
(***************************************************************************)
\* elapsed_days / total_days; a zero divisor raises ZeroDivisionError
PyTrueDiv(p, q) ==
    IF q = 0 THEN [raised |-> TRUE, value |-> F64Zero]
    ELSE [raised |-> FALSE, value |-> F64OfRatio(p, q)]

\* get_is_on_track without its "total_days <= 0" branch
GetIsOnTrack_Unguarded(obj, current, now) ==
    LET total_days   == DaysBetween(obj.deadline, obj.created_at)
        elapsed_days == DaysBetween(now, obj.created_at)
        cur          == FloatOfDecimal(current)
        target       == FloatOfCents(obj.target_amount)
        ratio        == PyTrueDiv(elapsed_days, total_days)
    IN  IF ratio.raised THEN [raised |-> TRUE, value |-> FALSE]
        ELSE [raised |-> FALSE,
              value |-> F64Ge(cur, F64Mul(target, F64Min(ratio.value, F64One)))]

\* get_is_on_track with "total_days < 0" for "total_days <= 0"
GetIsOnTrack_StrictGuard(obj, current, now) ==
    LET total_days   == DaysBetween(obj.deadline, obj.created_at)
        elapsed_days == DaysBetween(now, obj.created_at)
        cur          == FloatOfDecimal(current)
        target       == FloatOfCents(obj.target_amount)
    IN  IF total_days < 0
        THEN [raised |-> FALSE, value |-> F64Ge(cur, target)]
        ELSE LET ratio == PyTrueDiv(elapsed_days, total_days)
             IN  IF ratio.raised THEN [raised |-> TRUE, value |-> FALSE]
                 ELSE [raised |-> FALSE,
                       value |-> F64Ge(cur, F64Mul(target,
                                                   F64Min(ratio.value, F64One)))]

\* get_is_on_track; current is the instance's current_amount, a Decimal
GetIsOnTrack(obj, current, now) ==
    LET total_days   == DaysBetween(obj.deadline, obj.created_at)
        elapsed_days == DaysBetween(now, obj.created_at)
        cur          == FloatOfDecimal(current)
        target       == FloatOfCents(obj.target_amount)
    IN  IF total_days <= 0
        THEN [raised |-> FALSE, value |-> F64Ge(cur, target)]
        ELSE LET ratio == PyTrueDiv(elapsed_days, total_days)
             IN  IF ratio.raised THEN [raised |-> TRUE, value |-> FALSE]
                 ELSE [raised |-> FALSE,
                       value |-> F64Ge(cur, F64Mul(target,
                                                   F64Min(ratio.value, F64One)))]

\* get_days_remaining
GetDaysRemaining(obj, now) == DaysBetween(obj.deadline, now)

\* SavingsGoalSerializer(obj).data; current_amount is represented quantized.
\* raised: a field's computation raised, and the request ends in a server error
SerializeGoal(obj, current, now) ==
    LET track == GetIsOnTrack(obj, current, now)
        repr  == DecimalFieldDbValue(current)
    IN  [raised |-> track.raised \/ repr.raised,
         id |-> obj.id,
         target_amount |-> obj.target_amount,
         current_amount |-> repr.cents,
         deadline |-> obj.deadline,
         progress_percentage |->
             IF repr.raised THEN [int |-> TRUE, value |-> F64Zero]
             ELSE ProgressPercentage(obj.target_amount, current),
         is_on_track |-> track.value,
         days_remaining |-> GetDaysRemaining(obj, now),
         created_at |-> obj.created_at]

(***************************************************************************)
(* SavingsGoalViewSet.                                                     *)
(***************************************************************************)
\* the goals of every user
GoalQuerySet_All(u) == goals

\* get_queryset: SavingsGoal.objects.filter(user=self.request.user)
GoalQuerySet(u) == {g \in goals : g.user = u}

\* get_object: the rows of the queryset with this pk; none is Http404
GetObject(qs, pk) == {r \in qs : r.id = pk}

\* validate_target_amount, validate_deadline, and the model field validators
GoalValid(target, current, deadline) ==
    /\ target > 0
    /\ current >= 0
    /\ ~DateLE(deadline, today)

\* the response of a request that ends by serializing obj
GoalResponse(op, u, ok, obj) ==
    LET data == SerializeGoal(obj, DecOfCents(obj.current_amount), today)
    IN  IF data.raised THEN Respond(op, u, 500, NoBody)
        ELSE Respond(op, u, ok, data)

\* POST savings-goals/: create, perform_create
CreateGoal(u, target, current, deadline) ==
    /\ nextId.goal <= MaxGoal
    /\ IF GoalValid(target, current, deadline)
       THEN LET obj == [id |-> nextId.goal, user |-> u,
                        target_amount |-> target, current_amount |-> current,
                        deadline |-> deadline, created_at |-> today]
            IN  /\ goals' = goals \cup {obj}
                /\ nextId' = [nextId EXCEPT !.goal = @ + 1]
                /\ response' = GoalResponse("goal_create", u, 201, obj)
       ELSE /\ response' = Respond("goal_create", u, 400, NoBody)
            /\ UNCHANGED <<goals, nextId>>
    /\ UNCHANGED <<today, nights, incomes, expenses, funds, dash>>

\* PUT savings-goals/{pk}/: update
UpdateGoal(u, pk, target, current, deadline) ==
    /\ LET found == GetObject(GoalQuerySet(u), pk)
       IN  IF found = {}
           THEN /\ response' = Respond("goal_update", u, 404, NoBody)
                /\ UNCHANGED goals
           ELSE IF ~GoalValid(target, current, deadline)
           THEN /\ response' = Respond("goal_update", u, 400, NoBody)
                /\ UNCHANGED goals
           ELSE LET old == CHOOSE r \in found : TRUE
                    obj == [old EXCEPT !.target_amount = target,
                                       !.current_amount = current,
                                       !.deadline = deadline]
                IN  /\ goals' = (goals \ {old}) \cup {obj}
                    /\ response' = GoalResponse("goal_update", u, 200, obj)
    /\ UNCHANGED <<today, nights, incomes, expenses, nextId, funds, dash>>

\* DELETE savings-goals/{pk}/: destroy
DeleteGoal(u, pk) ==
    /\ LET found == GetObject(GoalQuerySet(u), pk)
       IN  IF found = {}
           THEN /\ response' = Respond("goal_delete", u, 404, NoBody)
                /\ UNCHANGED goals
           ELSE /\ goals' = goals \ found
                /\ response' = Respond("goal_delete", u, 204, NoBody)
    /\ UNCHANGED <<today, nights, incomes, expenses, nextId, funds, dash>>

\* GET savings-goals/{pk}/: retrieve
RetrieveGoal(u, pk) ==
    /\ LET found == GetObject(GoalQuerySet(u), pk)
       IN  IF found = {}
           THEN response' = Respond("goal_retrieve", u, 404, NoBody)
           ELSE response' = GoalResponse("goal_retrieve", u, 200,
                                         CHOOSE r \in found : TRUE)
    /\ UNCHANGED <<today, nights, incomes, expenses, goals, nextId, funds, dash>>

\* the admin site's change form of a SavingsGoal: any deadline can be stored
AdminChangeGoal(pk, deadline) ==
    /\ \E old \in goals :
          /\ old.id = pk
          /\ goals' = (goals \ {old}) \cup {[old EXCEPT !.deadline = deadline]}
    /\ response' = NoResponse
    /\ UNCHANGED <<today, nights, incomes, expenses, nextId, funds, dash>>

(***************************************************************************)
(* SavingsGoalViewSet.add_funds: get_object reads the row, goal.save()     *)
(* writes it back; nothing holds the row between the two queries.          *)
(***************************************************************************)
\* the checks of the amount with "amount < 0" for "amount <= 0"
AddFundsAmount_AcceptsZero(data) ==
    IF ~Truthy(data)
    THEN [ok |-> FALSE, error |-> "Amount is required.", amount |-> DecInvalid]
    ELSE LET amount == DecimalOfString(PyStr(data))
             rejected == \/ amount.kind = "invalid"
                         \/ DecCompareRaises(amount)
                         \/ /\ DecLeZero(amount)
                            /\ ~(amount.kind = "finite" /\ amount.coef = 0)
         IN  IF rejected
             THEN [ok |-> FALSE, error |-> "Amount must be a positive number.",
                   amount |-> DecInvalid]
             ELSE [ok |-> TRUE, error |-> "", amount |-> amount]

\* the checks of the amount: lines 164-172
AddFundsAmount(data) ==
    IF ~Truthy(data)
    THEN [ok |-> FALSE, error |-> "Amount is required.", amount |-> DecInvalid]
    ELSE LET amount == DecimalOfString(PyStr(data))
             rejected == \/ amount.kind = "invalid"
                         \/ DecCompareRaises(amount)
                         \/ DecLeZero(amount)
         IN  IF rejected
             THEN [ok |-> FALSE, error |-> "Amount must be a positive number.",
                   amount |-> DecInvalid]
             ELSE [ok |-> TRUE, error |-> "", amount |-> amount]

\* goal = self.get_object() and the checks of the amount, which read no row
AddFundsBegin(p, u, pk, data) ==
    /\ funds[p].pc # "loaded"
    /\ LET found   == GetObject(GoalQuerySet(u), pk)
           checked == AddFundsAmount(data)
           req     == [FundsIdle EXCEPT !.user = u, !.pk = pk, !.data = data]
       IN  funds' = [funds EXCEPT ![p] =
               IF found = {}
               THEN [req EXCEPT !.pc = "done", !.status = 404]
               ELSE IF ~checked.ok
               THEN [req EXCEPT !.pc = "done", !.status = 400,
                                !.goal = CHOOSE r \in found : TRUE]
               ELSE [req EXCEPT !.pc = "loaded", !.amount = checked.amount,
                                !.goal = CHOOSE r \in found : TRUE]]
    /\ response' = NoResponse
    /\ UNCHANGED <<today, nights, incomes, expenses, goals, nextId, dash>>

\* Model.save(): UPDATE of every column of the row with the instance's pk,
\* INSERT when no such row is left
SaveGoal(rows, obj) == {g \in rows : g.id # obj.id} \cup {obj}

\* goal.current_amount += amount; goal.save(); the response.  funds[p].goal
\* stays the row as it was read, the body holds the instance as it is now
AddFundsSave(p) ==
    /\ funds[p].pc = "loaded"
    /\ LET f       == funds[p]
           current == DecAdd(DecOfCents(f.goal.current_amount), f.amount)
           column  == DecimalFieldDbValue(current)
           data    == SerializeGoal(f.goal, current, today)
       IN  IF column.raised
           THEN /\ funds' = [funds EXCEPT ![p] = [f EXCEPT !.pc = "done",
                                                           !.status = 500]]
                /\ UNCHANGED goals
           ELSE /\ goals' = SaveGoal(goals, [f.goal EXCEPT
                                              !.current_amount = column.cents])
                /\ funds' = [funds EXCEPT ![p] =
                        [f EXCEPT !.pc = "done",
                                  !.status = IF data.raised THEN 500 ELSE 200,
                                  !.body = data]]
    /\ response' = NoResponse
    /\ UNCHANGED <<today, nights, incomes, expenses, nextId, dash>>

(***************************************************************************)
(* Querysets and aggregates.                                               *)
(***************************************************************************)
RECURSIVE SumAmounts(_)
SumAmounts(rows) ==
    IF rows = {} THEN 0
    ELSE LET r == CHOOSE x \in rows : TRUE
         IN  r.amount + SumAmounts(rows \ {r})

\* .aggregate(total=Sum('amount'))['total'] or Decimal('0.00'): the SUM of no
\* row is NULL
AggregateTotal(qs) == IF qs = {} THEN 0 ELSE SumAmounts(qs)

\* .filter(date__year=y, date__month=m)
FilterYearMonth(qs, y, m) == {r \in qs : r.date.year = y /\ r.date.month = m}

\* the sequences that list every member of a set once
Orderings(S) ==
    {seq \in [1..Cardinality(S) -> S] :
        \A a, b \in 1..Cardinality(S) : a # b => seq[a] # seq[b]}

\* the groups without order_by('-total')
CategoryTotals_Unordered(qs) ==
    Orderings({[category |-> c,
                total |-> SumAmounts({r \in qs : r.category = c})] :
                   c \in {r.category : r \in qs}})

\* .values('category').annotate(total=Sum('amount')).order_by('-total'): one
\* group per category that has rows, largest total first; the database lists
\* equal totals in any order
CategoryTotals(qs) ==
    LET groups == {[category |-> c,
                    total |-> SumAmounts({r \in qs : r.category = c})] :
                       c \in {r.category : r \in qs}}
    IN  {seq \in Orderings(groups) :
            \A a, b \in DOMAIN seq : a < b => seq[a].total >= seq[b].total}

(***************************************************************************)
(* IncomeViewSet.                                                          *)
(***************************************************************************)
\* get_queryset: Income.objects.filter(user=self.request.user)
IncomeQuerySet(u) == {r \in incomes : r.user = u}

\* IncomeSerializer.validate_amount, validate_date
IncomeValid(amount, date) == amount > 0 /\ DateLE(date, today)

\* POST income/: create, perform_create
CreateIncome(u, amount, date) ==
    /\ nextId.income <= MaxIncome
    /\ IF IncomeValid(amount, date)
       THEN LET obj == [id |-> nextId.income, user |-> u, amount |-> amount,
                        date |-> date]
            IN  /\ incomes' = incomes \cup {obj}
                /\ nextId' = [nextId EXCEPT !.income = @ + 1]
                /\ response' = Respond("income_create", u, 201, obj)
       ELSE /\ response' = Respond("income_create", u, 400, NoBody)
            /\ UNCHANGED <<incomes, nextId>>
    /\ UNCHANGED <<today, nights, expenses, goals, funds, dash>>

\* PUT income/{pk}/: update
UpdateIncome(u, pk, amount, date) ==
    /\ LET found == GetObject(IncomeQuerySet(u), pk)
       IN  IF found = {}
           THEN /\ response' = Respond("income_update", u, 404, NoBody)
                /\ UNCHANGED incomes
           ELSE IF ~IncomeValid(amount, date)
           THEN /\ response' = Respond("income_update", u, 400, NoBody)
                /\ UNCHANGED incomes
           ELSE LET old == CHOOSE r \in found : TRUE
                    obj == [old EXCEPT !.amount = amount, !.date = date]
                IN  /\ incomes' = (incomes \ {old}) \cup {obj}
                    /\ response' = Respond("income_update", u, 200, obj)
    /\ UNCHANGED <<today, nights, expenses, goals, nextId, funds, dash>>

\* DELETE income/{pk}/: destroy
DeleteIncome(u, pk) ==
    /\ LET found == GetObject(IncomeQuerySet(u), pk)
       IN  IF found = {}
           THEN /\ response' = Respond("income_delete", u, 404, NoBody)
                /\ UNCHANGED incomes
           ELSE /\ incomes' = incomes \ found
                /\ response' = Respond("income_delete", u, 204, NoBody)
    /\ UNCHANGED <<today, nights, expenses, goals, nextId, funds, dash>>

\* GET income/monthly_total/: the payload
IncomeMonthlyTotalData(u) ==
    [month |-> StrfFullMonthYear(today),
     total |-> AggregateTotal(FilterYearMonth(IncomeQuerySet(u),
                                              today.year, today.month))]

IncomeMonthlyTotal(u) ==
    /\ response' = Respond("income_monthly_total", u, 200, IncomeMonthlyTotalData(u))
    /\ UNCHANGED <<today, nights, incomes, expenses, goals, nextId, funds, dash>>

(***************************************************************************)
(* ExpenseViewSet.                                                         *)
(***************************************************************************)
\* get_queryset: Expense.objects.filter(user=self.request.user)
ExpenseQuerySet(u) == {r \in expenses : r.user = u}

\* ExpenseSerializer.validate_amount and the choices of category
ExpenseValid(category, amount) == amount > 0 /\ category \in Categories

\* POST expenses/: create, perform_create
CreateExpense(u, category, amount, date) ==
    /\ nextId.expense <= MaxExpense
    /\ IF ExpenseValid(category, amount)
       THEN LET obj == [id |-> nextId.expense, user |-> u, category |-> category,
                        amount |-> amount, date |-> date]
            IN  /\ expenses' = expenses \cup {obj}
                /\ nextId' = [nextId EXCEPT !.expense = @ + 1]
                /\ response' = Respond("expense_create", u, 201, obj)
       ELSE /\ response' = Respond("expense_create", u, 400, NoBody)
            /\ UNCHANGED <<expenses, nextId>>
    /\ UNCHANGED <<today, nights, incomes, goals, funds, dash>>

\* PUT expenses/{pk}/: update
UpdateExpense(u, pk, category, amount, date) ==
    /\ LET found == GetObject(ExpenseQuerySet(u), pk)
       IN  IF found = {}
           THEN /\ response' = Respond("expense_update", u, 404, NoBody)
                /\ UNCHANGED expenses
           ELSE IF ~ExpenseValid(category, amount)
           THEN /\ response' = Respond("expense_update", u, 400, NoBody)
                /\ UNCHANGED expenses
           ELSE LET old == CHOOSE r \in found : TRUE
                    obj == [old EXCEPT !.category = category, !.amount = amount,
                                       !.date = date]
                IN  /\ expenses' = (expenses \ {old}) \cup {obj}
                    /\ response' = Respond("expense_update", u, 200, obj)
    /\ UNCHANGED <<today, nights, incomes, goals, nextId, funds, dash>>

\* DELETE expenses/{pk}/: destroy
DeleteExpense(u, pk) ==
    /\ LET found == GetObject(ExpenseQuerySet(u), pk)
       IN  IF found = {}
           THEN /\ response' = Respond("expense_delete", u, 404, NoBody)
                /\ UNCHANGED expenses
           ELSE /\ expenses' = expenses \ found
                /\ response' = Respond("expense_delete", u, 204, NoBody)
    /\ UNCHANGED <<today, nights, incomes, goals, nextId, funds, dash>>

\* GET expenses/monthly_total/: the payload
ExpenseMonthlyTotalData(u) ==
    [month |-> StrfFullMonthYear(today),
     total |-> AggregateTotal(FilterYearMonth(ExpenseQuerySet(u),
                                              today.year, today.month))]

ExpenseMonthlyTotal(u) ==
    /\ response' = Respond("expense_monthly_total", u, 200, ExpenseMonthlyTotalData(u))
    /\ UNCHANGED <<today, nights, incomes, expenses, goals, nextId, funds, dash>>

\* GET expenses/by_category/: the payloads the database's order allows
ExpenseByCategoryData(u) ==
    {[k \in DOMAIN totals |->
         [category |-> totals[k].category,
          label |-> CategoryLabel(totals[k].category),
          total |-> totals[k].total]] :
        totals \in CategoryTotals(ExpenseQuerySet(u))}

ExpenseByCategory(u) ==
    /\ \E data \in ExpenseByCategoryData(u) :
          response' = Respond("expense_by_category", u, 200, data)
    /\ UNCHANGED <<today, nights, incomes, expenses, goals, nextId, funds, dash>>

(***************************************************************************)
(* DashboardView.get: one step per query.  No transaction spans the        *)
(* queries, so other requests can write between two steps.                 *)
(***************************************************************************)
\* Income.objects.filter(user=user), Expense.objects.filter(user=user),
\* SavingsGoal.objects.filter(user=user)
UserIncomes(u) == {r \in incomes : r.user = u}

\* the expenses of every user
UserExpenses_All(u) == expenses

UserExpenses(u) == {r \in expenses : r.user = u}

UserGoals(u) == {g \in goals : g.user = u}

\* today.replace(day=1), then i times back to the first day of the month before
RECURSIVE MonthBack(_, _)
MonthBack(month_date, i) ==
    IF i = 0 THEN month_date
    ELSE MonthBack(ReplaceDay1(PrevDay(month_date)), i - 1)

\* the month, i months back, in the year of the reference date
MonthDate_NoRollover(now, i) == Date(now.year, ((now.month - 1 - i) % 12) + 1, 1)

MonthDate(now, i) == MonthBack(ReplaceDay1(now), i)

DashStep(next) ==
    /\ dash' = next
    /\ response' = NoResponse
    /\ UNCHANGED <<today, nights, incomes, expenses, goals, nextId, funds>>

\* user = request.user; today = date.today(); total_income
DashTotalIncome(u) ==
    /\ dash.pc = "idle"
    /\ DashStep([DashIdle EXCEPT
           !.pc = "total_expenses", !.user = u, !.today = today,
           !.total_income = AggregateTotal(UserIncomes(u))])

\* total_expenses; balance
DashTotalExpenses ==
    /\ dash.pc = "total_expenses"
    /\ LET total == AggregateTotal(UserExpenses(dash.user))
       IN  DashStep([dash EXCEPT !.pc = "month_income",
                                 !.total_expenses = total,
                                 !.balance = dash.total_income - total])

\* month_income
DashMonthIncome ==
    /\ dash.pc = "month_income"
    /\ DashStep([dash EXCEPT
           !.pc = "month_expenses",
           !.month_income = AggregateTotal(FilterYearMonth(
               UserIncomes(dash.user), dash.today.year, dash.today.month))])

\* month_expenses
DashMonthExpenses ==
    /\ dash.pc = "month_expenses"
    /\ DashStep([dash EXCEPT
           !.pc = "categories",
           !.month_expenses = AggregateTotal(FilterYearMonth(
               UserExpenses(dash.user), dash.today.year, dash.today.month))])

\* category_totals, expenses_by_category; the monthly loop starts at i = 5
DashCategories ==
    /\ dash.pc = "categories"
    /\ \E totals \in CategoryTotals(UserExpenses(dash.user)) :
          DashStep([dash EXCEPT
              !.pc = "m_income",
              !.i = OldestMonthOffset,
              !.expenses_by_category =
                  [k \in DOMAIN totals |->
                      [name |-> CategoryLabel(totals[k].category),
                       value |-> FloatOfCents(totals[k].total),
                       category |-> totals[k].category]]])

\* month_date; m_income
DashMonthlyIncome ==
    /\ dash.pc = "m_income"
    /\ LET month_date == MonthDate(dash.today, dash.i)
       IN  DashStep([dash EXCEPT
               !.pc = "m_expenses",
               !.m_income = AggregateTotal(FilterYearMonth(
                   UserIncomes(dash.user), month_date.year, month_date.month))])

\* m_expenses; monthly_data.append; the next i
DashMonthlyExpenses ==
    /\ dash.pc = "m_expenses"
    /\ LET month_date == MonthDate(dash.today, dash.i)
           m_expenses == AggregateTotal(FilterYearMonth(
               UserExpenses(dash.user), month_date.year, month_date.month))
       IN  DashStep([dash EXCEPT
               !.pc = IF dash.i = 0 THEN "goals" ELSE "m_income",
               !.i = dash.i - 1,
               !.monthly_data = Append(@,
                   [month |-> StrfMonthYear(month_date),
                    income |-> FloatOfCents(dash.m_income),
                    expenses |-> FloatOfCents(m_expenses)])])

\* goals, savings_summary (its order is not modelled), the Response
DashGoals ==
    /\ dash.pc = "goals"
    /\ LET summary == {SerializeGoal(g, DecOfCents(g.current_amount), today) :
                          g \in UserGoals(dash.user)}
       IN  response' =
               IF \E data \in summary : data.raised
               THEN Respond("dashboard", dash.user, 500, NoBody)
               ELSE Respond("dashboard", dash.user, 200,
                   [total_income |-> FloatOfCents(dash.total_income),
                    total_expenses |-> FloatOfCents(dash.total_expenses),
                    balance |-> FloatOfCents(dash.balance),
                    month_income |-> FloatOfCents(dash.month_income),
                    month_expenses |-> FloatOfCents(dash.month_expenses),
                    expenses_by_category |-> dash.expenses_by_category,
                    monthly_data |-> dash.monthly_data,
                    savings_summary |-> summary])
    /\ dash' = DashIdle
    /\ UNCHANGED <<today, nights, incomes, expenses, goals, nextId, funds>>

(***************************************************************************)
(* Inputs of the requests.                                                 *)
(***************************************************************************)
MissingAmounts == {JNull, JStr(<<>>)}
ZeroAmounts == {JNum(0), JStr(<<"0">>), JStr(<<"0", ".", "0", "0">>)}
NegativeAmounts == {JNum(-5), JStr(<<"-", "5">>), JStr(<<"-", "0", ".", "0", "1">>)}
NonNumericAmounts == {JStr(<<"a", "b", "c">>), JStr(<<"N", "a", "N">>),
                      JStr(<<"1", ".", "2", ".", "3">>), JStr(<<"-">>)}
CentAmounts == {JNum(10), JStr(<<"1", "0">>), JStr(<<"0", ".", "2", "5">>)}
SubCentAmounts == {JStr(<<"0", ".", "0", "0", "4">>)}
InfiniteAmounts == {JStr(<<"I", "n", "f", "i", "n", "i", "t", "y">>)}

RejectedAmounts ==
    MissingAmounts \cup ZeroAmounts \cup NegativeAmounts \cup NonNumericAmounts

AmountInputs ==
    RejectedAmounts \cup CentAmounts \cup SubCentAmounts \cup InfiniteAmounts

GoalIds == 1..(MaxGoal + 1)

\* the goal fields the clients of the add_funds runs send
FundsDeadline == Date(2024, 6, 30)

\* no goal holds MaxSaved cents yet
BelowMaxSaved == \A g \in goals : g.current_amount < MaxSaved

\* user u has no goal pk that holds MaxSaved cents
OwnBelowMaxSaved(u, pk) ==
    \A g \in goals : (g.user = u /\ g.id = pk) => g.current_amount < MaxSaved

InitJanuary == Init /\ today = Date(2024, 1, 15)

(***************************************************************************)
(* SpecRace: the two workers each handle one add_funds request.            *)
(***************************************************************************)
NextRace ==
    \/ \E u \in Users : CreateGoal(u, 20, 0, FundsDeadline)
    \/ \E p \in Procs, u \in Users, pk \in GoalIds, data \in CentAmounts :
          funds[p].pc = "idle" /\ AddFundsBegin(p, u, pk, data)
    \/ \E p \in Procs : AddFundsSave(p)

SpecRace == InitJanuary /\ [][NextRace]_vars

(***************************************************************************)
(* SpecFunds: goal CRUD and add_funds requests handled one at a time.      *)
(***************************************************************************)
NextFunds ==
    \/ \E u \in Users : CreateGoal(u, 20, 0, FundsDeadline)
    \/ \E u \in Users, pk \in GoalIds : UpdateGoal(u, pk, 20, 5, FundsDeadline)
    \/ \E u \in Users, pk \in GoalIds : DeleteGoal(u, pk)
    \/ \E u \in Users, pk \in GoalIds, data \in AmountInputs :
          BelowMaxSaved /\ AddFundsBegin("w1", u, pk, data)
    \/ AddFundsSave("w1")

SpecFunds == InitJanuary /\ [][NextFunds]_vars

(***************************************************************************)
(* The transactions the clients of the dashboard runs send.                *)
(***************************************************************************)
IncomeInputs ==
    {[user |-> "alice", amount |-> 100000, date |-> Date(2024, 1, 5)],
     [user |-> "alice", amount |-> 2550, date |-> Date(2023, 8, 31)],
     [user |-> "bob", amount |-> 5000, date |-> Date(2024, 1, 5)],
     [user |-> "alice", amount |-> 100, date |-> Date(2024, 12, 25)]}

ExpenseInputs ==
    {[user |-> "alice", category |-> "food", amount |-> 300,
      date |-> Date(2024, 1, 10)],
     [user |-> "alice", category |-> "rent", amount |-> 300,
      date |-> Date(2023, 12, 31)],
     [user |-> "alice", category |-> "rent", amount |-> 45000,
      date |-> Date(2023, 7, 31)],
     [user |-> "bob", category |-> "food", amount |-> 700,
      date |-> Date(2024, 1, 10)],
     [user |-> "alice", category |-> "food", amount |-> 0,
      date |-> Date(2024, 1, 10)]}

IncomeIds == 1..(MaxIncome + 1)
ExpenseIds == 1..(MaxExpense + 1)

WriteIncome ==
    \/ \E r \in IncomeInputs : CreateIncome(r.user, r.amount, r.date)
    \/ \E r \in IncomeInputs, pk \in IncomeIds :
          UpdateIncome(r.user, pk, r.amount, r.date)
    \/ \E u \in Users, pk \in IncomeIds : DeleteIncome(u, pk)

WriteExpense ==
    \/ \E r \in ExpenseInputs : CreateExpense(r.user, r.category, r.amount, r.date)
    \/ \E r \in ExpenseInputs, pk \in ExpenseIds :
          UpdateExpense(r.user, pk, r.category, r.amount, r.date)
    \/ \E u \in Users, pk \in ExpenseIds : DeleteExpense(u, pk)

Totals ==
    \/ \E u \in Users : IncomeMonthlyTotal(u)
    \/ \E u \in Users : ExpenseMonthlyTotal(u)
    \/ \E u \in Users : ExpenseByCategory(u)

Dashboard ==
    \/ DashTotalIncome("alice")
    \/ DashTotalExpenses
    \/ DashMonthIncome
    \/ DashMonthExpenses
    \/ DashCategories
    \/ DashMonthlyIncome
    \/ DashMonthlyExpenses
    \/ DashGoals

(***************************************************************************)
(* SpecSerial: transactions, totals and dashboards handled one request at  *)
(* a time.                                                                 *)
(***************************************************************************)
NextSerial ==
    \/ dash.pc = "idle" /\ WriteIncome
    \/ dash.pc = "idle" /\ WriteExpense
    \/ dash.pc = "idle" /\ Totals
    \/ Dashboard

SpecSerial == InitJanuary /\ [][NextSerial]_vars

(***************************************************************************)
(* SpecMonths: dashboards on several reference dates, between creations    *)
(* and deletions of transactions.                                          *)
(***************************************************************************)
NextMonths ==
    \/ /\ dash.pc = "idle"
       /\ \E r \in IncomeInputs : CreateIncome(r.user, r.amount, r.date)
    \/ /\ dash.pc = "idle"
       /\ \E r \in ExpenseInputs :
             CreateExpense(r.user, r.category, r.amount, r.date)
    \/ /\ dash.pc = "idle"
       /\ \E u \in Users, pk \in IncomeIds : DeleteIncome(u, pk)
    \/ /\ dash.pc = "idle"
       /\ \E u \in Users, pk \in ExpenseIds : DeleteExpense(u, pk)
    \/ Dashboard

SpecMonths == Init /\ [][NextMonths]_vars

(***************************************************************************)
(* SpecDash: a dashboard request while another worker writes expenses.     *)
(***************************************************************************)
WriteDuringDashboard ==
    \/ \E r \in {x \in ExpenseInputs : x.date = Date(2024, 1, 10)} :
          CreateExpense(r.user, r.category, r.amount, r.date)
    \/ \E u \in Users, pk \in ExpenseIds : DeleteExpense(u, pk)

NextDash ==
    \/ WriteDuringDashboard
    \/ Dashboard

SpecDash == InitJanuary /\ [][NextDash]_vars

(***************************************************************************)
(* SpecTrack: goals are created, days pass, the admin site changes         *)
(* deadlines, and the owner retrieves the goals.                           *)
(***************************************************************************)
RECURSIVE DatePlus(_, _)
DatePlus(dt, n) == IF n = 0 THEN dt ELSE DatePlus(NextDay(dt), n - 1)

\* target and current in cents, the deadline span days after the request
GoalInputs ==
    {[target |-> 100000, current |-> 50000, span |-> 10],
     [target |-> 5, current |-> 1, span |-> 5],
     [target |-> 20, current |-> 20, span |-> 2],
     [target |-> 20, current |-> 19, span |-> 2]}

\* deadlines the admin site stores
AdminDeadlines == {Date(2024, 1, 15), Date(2024, 1, 17)}

NextTrack ==
    \/ \E r \in GoalInputs :
          CreateGoal("alice", r.target, r.current, DatePlus(today, r.span))
    \/ \E pk \in GoalIds, deadline \in AdminDeadlines : AdminChangeGoal(pk, deadline)
    \/ \E pk \in GoalIds : RetrieveGoal("alice", pk)
    \/ Midnight

SpecTrack == InitJanuary /\ [][NextTrack]_vars

(***************************************************************************)
(* SpecOwner: the two users work on their own and on each other's rows;    *)
(* each user keeps at most one row per table, and the goal is alice's.     *)
(***************************************************************************)
OwnerAmounts == {JStr(<<"0", ".", "2", "5">>), JStr(<<"0">>)}

NextOwner ==
    \/ \E u \in Users :
          IncomeQuerySet(u) = {} /\ CreateIncome(u, 1000, Date(2024, 1, 5))
    \/ \E u \in Users :
          ExpenseQuerySet(u) = {} /\ CreateExpense(u, "food", 300, Date(2024, 1, 10))
    \/ \E pk \in ExpenseIds :
          UpdateExpense("alice", pk, "rent", 500, Date(2024, 1, 10))
    \/ GoalQuerySet("alice") = {} /\ CreateGoal("alice", 20, 0, FundsDeadline)
    \/ \E u \in Users, pk \in GoalIds : RetrieveGoal(u, pk)
    \/ \E u \in Users, pk \in GoalIds, data \in OwnerAmounts :
          OwnBelowMaxSaved(u, pk) /\ AddFundsBegin("w1", u, pk, data)
    \/ AddFundsSave("w1")

SpecOwner == InitJanuary /\ [][NextOwner]_vars

(***************************************************************************)
(* SpecTotal: alice requests dashboards, one request at a time, while bob  *)
(* records transactions, one goal is created, the admin site changes its   *)
(* deadline and days pass.                                                 *)
(***************************************************************************)
NextTotal ==
    \/ dash.pc = "idle" /\ CreateIncome("bob", 5000, Date(2024, 1, 5))
    \/ dash.pc = "idle" /\ CreateExpense("bob", "food", 700, Date(2024, 1, 10))
    \/ /\ dash.pc = "idle"
       /\ goals = {}
       /\ \E u \in Users, r \in GoalInputs :
             CreateGoal(u, r.target, r.current, DatePlus(today, r.span))
    \/ /\ dash.pc = "idle"
       /\ \E pk \in GoalIds, deadline \in AdminDeadlines :
             AdminChangeGoal(pk, deadline)
    \/ Midnight
    \/ Dashboard

SpecTotal == InitJanuary /\ [][NextTotal]_vars

(***************************************************************************)
(* Spec: every request, by any worker, in any order.                       *)
(***************************************************************************)
Next ==
    \/ WriteIncome
    \/ WriteExpense
    \/ Totals
    \/ Dashboard
    \/ \E u \in Users, r \in GoalInputs :
          CreateGoal(u, r.target, r.current, DatePlus(today, r.span))
    \/ \E u \in Users, pk \in GoalIds, r \in GoalInputs :
          UpdateGoal(u, pk, r.target, r.current, DatePlus(today, r.span))
    \/ \E u \in Users, pk \in GoalIds : DeleteGoal(u, pk)
    \/ \E u \in Users, pk \in GoalIds : RetrieveGoal(u, pk)
    \/ \E pk \in GoalIds, deadline \in AdminDeadlines : AdminChangeGoal(pk, deadline)
    \/ \E p \in Procs, u \in Users, pk \in GoalIds, data \in AmountInputs :
          BelowMaxSaved /\ AddFundsBegin(p, u, pk, data)
    \/ \E p \in Procs : AddFundsSave(p)
    \/ Midnight

Spec == Init /\ [][Next]_vars

(***************************************************************************)
(* Claims.                                                                 *)
(***************************************************************************)
\* the cents of an amount with at most DecimalPlaces places
CentsOf(d) == d.coef * 10^(DecimalPlaces - d.places)

\* a = b as numbers
DecEq(a, b) ==
    LET p == IF a.places >= b.places THEN a.places ELSE b.places
    IN  a.coef * 10^(p - a.places) = b.coef * 10^(p - b.places)

Least(x, y) == IF x <= y THEN x ELSE y

\* C1: when two add_funds requests on the same goal have both succeeded, the
\* goal's stored current_amount is the amount it started with plus both
\* amounts (the first of the two reads saw the starting amount).
C1_NoLostUpdate ==
    \A p \in Procs, q \in Procs :
        ( /\ p # q
          /\ funds[p].pc = "done" /\ funds[p].status = 200
          /\ funds[q].pc = "done" /\ funds[q].status = 200
          /\ funds[p].pk = funds[q].pk )
        => \A g \in goals :
              g.id = funds[p].pk
              => g.current_amount =
                    Least(funds[p].goal.current_amount, funds[q].goal.current_amount)
                    + CentsOf(funds[p].amount) + CentsOf(funds[q].amount)

\* a step in which worker p ends a request
Ends(p) == funds'[p].pc = "done" /\ funds'[p] # funds[p]

\* C2: an add_funds request whose amount is missing, zero, negative or not a
\* number ends with status 400 (404 when the requester has no such goal) and
\* the step changes no stored row.
C2_RejectedAmountChangesNothing ==
    [][\A p \in Procs :
          (Ends(p) /\ funds'[p].data \in RejectedAmounts)
          => /\ funds'[p].status =
                   (IF GetObject(GoalQuerySet(funds'[p].user), funds'[p].pk) = {}
                    THEN 404 ELSE 400)
             /\ goals' = goals
             /\ incomes' = incomes
             /\ expenses' = expenses]_vars

\* C2's case: a negative amount was rejected on a goal that holds funds
C2_Witness ==
    \E p \in Procs :
        /\ funds[p].pc = "done"
        /\ funds[p].status = 400
        /\ funds[p].data \in NegativeAmounts
        /\ funds[p].goal \in goals
        /\ funds[p].goal.current_amount > 0

\* C3: a successful add_funds whose goal nobody else wrote since it was read
\* stores exactly the previous current_amount plus the amount, keeps the goal's
\* other fields, every other goal and every Income and Expense row, and never
\* lowers current_amount.
C3_AddFundsAddsExactly ==
    [][\A p \in Procs :
          ( /\ funds[p].pc = "loaded"
            /\ funds'[p].pc = "done"
            /\ funds'[p].status = 200
            /\ funds[p].goal \in goals )
          => LET old == funds[p].goal
             IN  /\ \E g \in goals' :
                       /\ g.id = old.id
                       /\ DecEq(DecOfCents(g.current_amount),
                                DecAdd(DecOfCents(old.current_amount),
                                       funds[p].amount))
                       /\ g.current_amount >= old.current_amount
                       /\ g = [old EXCEPT !.current_amount = g.current_amount]
                 /\ {g \in goals' : g.id # old.id} = {g \in goals : g.id # old.id}
                 /\ incomes' = incomes
                 /\ expenses' = expenses]_vars

\* the rows of user u
Mine(rows, u) == {r \in rows : r.user = u}

\* the rows dated in month m of year y
InMonth(rows, y, m) == {r \in rows : r.date.year = y /\ r.date.month = m}

\* the sum of the amounts of a set of rows, in cents
RECURSIVE Total(_)
Total(rows) ==
    IF rows = {} THEN 0
    ELSE LET r == CHOOSE x \in rows : TRUE
         IN  Total(rows \ {r}) + r.amount

RECURSIVE SumSeq(_)
SumSeq(seq) == IF seq = <<>> THEN 0 ELSE Head(seq) + SumSeq(Tail(seq))

RECURSIVE BigToNat(_)
BigToNat(a) == IF a = <<>> THEN 0 ELSE Head(a) + Base * BigToNat(Tail(a))

\* the cents a float shows when it is written with DecimalPlaces places
CentsOfFloat(f) ==
    IF f.man = <<>> THEN 0
    ELSE LET n == BigMulSmall(f.man, 2 * 10^DecimalPlaces)
             t == IF f.exp >= 0 THEN BigShl(n, f.exp) ELSE BigShr(n, -f.exp)
             c == (BigToNat(t) + 1) \div 2
         IN  IF f.neg THEN -c ELSE c

\* the last step answered a dashboard request with a payload
DashboardSent == response.op = "dashboard" /\ response.status = 200

\* C4: the fields of a dashboard payload agree with each other: balance is
\* total_income - total_expenses, the expenses_by_category values add up to
\* total_expenses, and the last monthly_data entry is (month_income,
\* month_expenses).
C4_DashboardOneSnapshot ==
    DashboardSent =>
        LET body == response.body
            last == body.monthly_data[Len(body.monthly_data)]
        IN  /\ CentsOfFloat(body.balance) =
                  CentsOfFloat(body.total_income) - CentsOfFloat(body.total_expenses)
            /\ SumSeq([k \in DOMAIN body.expenses_by_category |->
                          CentsOfFloat(body.expenses_by_category[k].value)])
                  = CentsOfFloat(body.total_expenses)
            /\ last.income = body.month_income
            /\ last.expenses = body.month_expenses

\* C5: monthly_data of a dashboard payload has 6 entries, oldest first, for
\* the 6 consecutive calendar months that end with the month of the reference
\* date (Aug 2023 .. Jan 2024 for 2024-01-15), and each entry carries the sums
\* of the user's incomes and expenses dated in its month.
C5_SixCalendarMonths ==
    DashboardSent =>
        LET md == response.body.monthly_data
            u  == response.user
        IN  /\ Len(md) = 6
            /\ \A k \in 1..6 :
                  LET n == today.year * 12 + (today.month - 1) - (6 - k)
                      y == n \div 12
                      m == (n % 12) + 1
                  IN  /\ md[k].month = [mon |-> MonthAbbr[m], year |-> y]
                      /\ md[k].income =
                            FloatOfCents(Total(InMonth(Mine(incomes, u), y, m)))
                      /\ md[k].expenses =
                            FloatOfCents(Total(InMonth(Mine(expenses, u), y, m)))
            /\ today = Date(2024, 1, 15) =>
                  [k \in 1..6 |-> md[k].month] =
                      << [mon |-> "Aug", year |-> 2023], [mon |-> "Sep", year |-> 2023],
                         [mon |-> "Oct", year |-> 2023], [mon |-> "Nov", year |-> 2023],
                         [mon |-> "Dec", year |-> 2023], [mon |-> "Jan", year |-> 2024] >>

\* C5's case: a payload for 2024-01-15 whose oldest month holds an income and
\* whose December holds an expense
C5_Witness ==
    /\ DashboardSent
    /\ today = Date(2024, 1, 15)
    /\ response.body.monthly_data[1].income # F64Zero
    /\ response.body.monthly_data[5].expenses # F64Zero

\* C8: a category breakdown lists each category that has an expense of the
\* user once and no other, with the sum of that category's amounts, largest
\* total first, and its totals add up to the user's total expenses.
C8_CategoryBreakdown ==
    LET mine == Mine(expenses, response.user)
        cats == {r.category : r \in mine}
        OfCategory(c) == {r \in mine : r.category = c}
    IN  /\ (response.op = "expense_by_category" /\ response.status = 200) =>
              LET body == response.body
              IN  /\ Len(body) = Cardinality(cats)
                  /\ {body[k].category : k \in DOMAIN body} = cats
                  /\ \A k \in DOMAIN body :
                        body[k].total = Total(OfCategory(body[k].category))
                  /\ \A a, b \in DOMAIN body :
                        a < b => body[a].total >= body[b].total
                  /\ SumSeq([k \in DOMAIN body |-> body[k].total]) = Total(mine)
        /\ DashboardSent =>
              LET body == response.body.expenses_by_category
              IN  /\ Len(body) = Cardinality(cats)
                  /\ {body[k].category : k \in DOMAIN body} = cats
                  /\ \A k \in DOMAIN body :
                        body[k].value =
                            FloatOfCents(Total(OfCategory(body[k].category)))
                  /\ \A a, b \in DOMAIN body :
                        a < b => F64Ge(body[a].value, body[b].value)
                  /\ SumSeq([k \in DOMAIN body |-> CentsOfFloat(body[k].value)])
                        = CentsOfFloat(response.body.total_expenses)
                  /\ response.body.total_expenses = FloatOfCents(Total(mine))

\* C8's case: a dashboard payload with two categories of different totals
C8_Witness ==
    /\ DashboardSent
    /\ Len(response.body.expenses_by_category) = 2
    /\ response.body.expenses_by_category[1].value
          # response.body.expenses_by_category[2].value

\* C9: in a dashboard payload balance is the sum of the user's incomes minus
\* the sum of the user's expenses, month_income and month_expenses are the sums
\* of the rows dated in the month of the reference date, and neither is greater
\* than its total; monthly_total answers the same monthly sums.
C9_BalanceAndMonthSums ==
    LET myIncomes  == Mine(incomes, response.user)
        myExpenses == Mine(expenses, response.user)
        monthIn    == Total(InMonth(myIncomes, today.year, today.month))
        monthOut   == Total(InMonth(myExpenses, today.year, today.month))
    IN  /\ DashboardSent =>
              LET body == response.body
              IN  /\ body.balance = FloatOfCents(Total(myIncomes) - Total(myExpenses))
                  /\ body.month_income = FloatOfCents(monthIn)
                  /\ body.month_expenses = FloatOfCents(monthOut)
                  /\ F64Ge(body.total_income, body.month_income)
                  /\ F64Ge(body.total_expenses, body.month_expenses)
        /\ response.op = "income_monthly_total" => response.body.total = monthIn
        /\ response.op = "expense_monthly_total" => response.body.total = monthOut

\* C9's case: a payload after a row was deleted, with a negative balance and
\* an expense outside the month of the reference date
C9_Witness ==
    /\ DashboardSent
    /\ Cardinality(expenses) < nextId.expense - 1
    /\ Mine(incomes, response.user) # {}
    /\ response.body.balance.neg
    /\ response.body.month_expenses # response.body.total_expenses

\* the last step answered with a serialized goal
GoalSent ==
    /\ response.op \in {"goal_create", "goal_retrieve"}
    /\ response.status \in {200, 201}

\* C6: for a goal whose deadline is after its creation date, is_on_track is
\* true exactly when current_amount >= target_amount * min(elapsed/total, 1),
\* in exact arithmetic on cents and days.
C6_OnTrackExact ==
    GoalSent =>
        LET data    == response.body
            total   == DaysBetween(data.deadline, data.created_at)
            elapsed == DaysBetween(today, data.created_at)
        IN  total > 0 =>
               data.is_on_track =
                  (data.current_amount * total
                      >= data.target_amount * Least(elapsed, total))

\* C7: a goal whose deadline is not after its creation date is serialized
\* with is_on_track true exactly when current_amount >= target_amount, on every
\* day, and no retrieval of such a goal ends in a server error.
C7_DegenerateGoal ==
    /\ GoalSent =>
          LET data == response.body
          IN  DaysBetween(data.deadline, data.created_at) <= 0
              => data.is_on_track = (data.current_amount >= data.target_amount)
    /\ (response.op = "goal_retrieve" /\ response.status = 500)
          => \A g \in GoalQuerySet(response.user) :
                DaysBetween(g.deadline, g.created_at) > 0

\* C7's case: a goal one cent short whose deadline is its creation date was
\* retrieved on a later day
C7_Witness ==
    /\ GoalSent
    /\ response.body.deadline = response.body.created_at
    /\ response.body.current_amount = response.body.target_amount - 1
    /\ ~response.body.is_on_track
    /\ today # response.body.created_at

\* what user u can read: the rows of u's querysets and the results the totals
\* endpoints and the dashboard's queries give u
View(u) ==
    [incomes |-> IncomeQuerySet(u),
     expenses |-> ExpenseQuerySet(u),
     goals |-> GoalQuerySet(u),
     income_monthly_total |-> IncomeMonthlyTotalData(u),
     expense_monthly_total |-> ExpenseMonthlyTotalData(u),
     by_category |-> ExpenseByCategoryData(u),
     dashboard |->
        [total_income |-> AggregateTotal(UserIncomes(u)),
         total_expenses |-> AggregateTotal(UserExpenses(u)),
         month_income |-> AggregateTotal(FilterYearMonth(
                              UserIncomes(u), today.year, today.month)),
         month_expenses |-> AggregateTotal(FilterYearMonth(
                              UserExpenses(u), today.year, today.month)),
         category_totals |-> CategoryTotals(UserExpenses(u)),
         savings_summary |-> UserGoals(u)]]

\* the step handles a request of user v
StepBy(v) ==
    \/ response'.user = v
    \/ \E p \in Procs : funds'[p] # funds[p] /\ funds'[p].user = v

\* C10: a step of one user leaves what every other user can read unchanged;
\* a retrieved goal is one of the requester's; and an add_funds request on a
\* goal that is not the requester's, or on no goal, ends with status 404 and
\* changes no goal, while one on the requester's own goal never ends with 404
\* (a bad amount ends with 400).
C10_OwnerOnly ==
    [][ /\ \A u \in Users :
              (\E v \in Users \ {u} : StepBy(v))
              => \/ UNCHANGED <<today, incomes, expenses, goals>>
                 \/ View(u)' = View(u)
        /\ (response'.op = "goal_retrieve" /\ response'.status = 200)
              => \E g \in Mine(goals, response'.user) : g.id = response'.body.id
        /\ \A p \in Procs :
              (funds'[p] # funds[p] /\ funds[p].pc # "loaded")
              => LET r == funds'[p]
                     owned == \E g \in goals : g.id = r.pk /\ g.user = r.user
                 IN  /\ ~owned => (r.pc = "done" /\ r.status = 404 /\ goals' = goals)
                     /\ owned => r.status # 404
                     /\ (owned /\ r.pc = "done")
                           => (r.status = 400 /\ goals' = goals) ]_vars

\* C10's case: a user asked to add funds to the other user's goal, which holds
\* funds, while both users have expenses
C10_Witness ==
    \E p \in Procs :
        /\ funds[p].pc = "done"
        /\ funds[p].status = 404
        /\ \E g \in goals :
              /\ g.id = funds[p].pk
              /\ g.user # funds[p].user
              /\ g.current_amount > 0
        /\ \A u \in Users : Mine(expenses, u) # {}

\* the float f is num / den (num >= 0, den > 0) to the precision of a float:
\* |f - num/den| <= 2^-52 * num/den
FloatIsRatio(f, num, den) ==
    LET k == IF f.exp < 0 THEN -f.exp ELSE 0
        a == BigShl(BigMul(f.man, BigOfNat(den)), 52 + f.exp + k)
        b == BigShl(BigOfNat(num), 52 + k)
        t == BigShl(BigOfNat(num), k)
    IN  /\ ~(f.neg /\ f.man # <<>>)
        /\ BigCmp(a, BigAdd(b, t)) <= 0
        /\ BigCmp(BigAdd(a, t), b) >= 0

\* the progress_percentage of a serialized goal is what its target_amount and
\* current_amount make it
ProgressAsClaimed(data) ==
    LET target   == data.target_amount
        current  == data.current_amount
        progress == data.progress_percentage.value
    IN  /\ target <= 0 => F64Cmp(progress, F64Zero) = 0
        /\ (target > 0 /\ current >= target) => F64Cmp(progress, F64Hundred) = 0
        /\ (target > 0 /\ current < target)
              => FloatIsRatio(progress, 100 * current, target)
        /\ F64Cmp(progress, F64Zero) >= 0
        /\ F64Cmp(progress, F64Hundred) <= 0

\* C11: in every goal a request answers with, progress_percentage is 0 when
\* target_amount <= 0, 100 when current_amount >= target_amount > 0, and
\* current_amount / target_amount * 100 otherwise, and it lies within [0, 100],
\* whatever add_funds requests came before.
C11_ProgressPercentage ==
    /\ (response.status \in {200, 201} /\ response.op \in {"goal_create", "goal_update", "goal_retrieve"})
          => ProgressAsClaimed(response.body)
    /\ \A p \in Procs :
          (funds[p].pc = "done" /\ funds[p].status = 200)
             => ProgressAsClaimed(funds[p].body)

\* C12: no dashboard request ends in a server error, whatever goals the user
\* has (a deadline before the creation date or already passed included), and
\* for a user with no income, expense or goal the payload has total_income,
\* total_expenses, balance, month_income and month_expenses 0, no
\* expenses_by_category entry, six monthly_data entries with income and
\* expenses 0, and no savings_summary entry.
C12_DashboardTotal ==
    /\ response.op = "dashboard" => response.status = 200
    /\ ( /\ DashboardSent
         /\ Mine(incomes, response.user) = {}
         /\ Mine(expenses, response.user) = {}
         /\ Mine(goals, response.user) = {} )
       => LET body == response.body
          IN  /\ body.total_income = F64Zero
              /\ body.total_expenses = F64Zero
              /\ body.balance = F64Zero
              /\ body.month_income = F64Zero
              /\ body.month_expenses = F64Zero
              /\ body.expenses_by_category = <<>>
              /\ Len(body.monthly_data) = 6
              /\ \A k \in 1..6 :
                    /\ body.monthly_data[k].income = F64Zero
                    /\ body.monthly_data[k].expenses = F64Zero
              /\ body.savings_summary = {}

\* C12's case: a dashboard payload lists a goal whose deadline is before its
\* creation date and has passed
C12_Witness ==
    /\ DashboardSent
    /\ \E data \in response.body.savings_summary :
          /\ DaysBetween(data.deadline, data.created_at) < 0
          /\ data.days_remaining < 0

=============================================================================
